---------------------------- MODULE Spec2Model ----------------------------
(***************************************************************************)
(* State-machine model of docx2hf (src/app.py): a Streamlit script that    *)
(* extracts the text of uploaded DOCX files, splits the documents into a   *)
(* train and a test subset with the rule  i % (100/test_split) == 0,  and *)
(* pushes the two subsets to the Hugging Face hub.                         *)
(*                                                                         *)
(* A Streamlit script is re-executed from its first line on every user     *)
(* interaction.  The widgets (hf_token, repo_name, test_split,             *)
(* uploaded_files) keep their values between executions; everything else   *)
(* (the locals of create_jsonl_data, what the page shows) belongs to one   *)
(* execution.  The model has one action per user interaction, and it       *)
(* follows the execution started by the button through the loop of         *)
(* create_jsonl_data one file at a time.                                   *)
(***************************************************************************)
EXTENDS Integers, Sequences, FiniteSets, TLC

VARIABLES
    hf_token,        \* st.text_input of the sidebar (line 88)
    authenticated,   \* login(token=...) has succeeded in this process (line 90)
    repo_name,       \* st.text_input "Repository Name" (line 94)
    test_split,      \* st.slider "Test Split %" (line 95)
    uploaded_files,  \* st.file_uploader: the list of file objects (line 249)
    pc,              \* where the script execution stands
    raised_by,       \* the call whose exception ended the execution, or ""
    i,               \* zero-based index of the next file of the loop (line 236)
    train_data,      \* local of create_jsonl_data (line 235)
    test_data,       \* local of create_jsonl_data (line 235)
    train_src,       \* history: the index of the file behind each train record
    test_src,        \* history: the index of the file behind each test record
    warnings,        \* st.warning calls of this execution (line 245)
    messages,        \* st.success / st.error calls of lines 261 and 263
    published,       \* push_to_hub calls of this execution (line 260)
    extracted        \* results of successive extract_text_from_docx calls

vars == <<hf_token, authenticated, repo_name, test_split, uploaded_files, pc,
          raised_by, i, train_data, test_data, train_src, test_src, warnings,
          messages, published, extracted>>

-----------------------------------------------------------------------------
(* Bounds of the model *)

\* Longest upload of a session.
MaxFiles == 3

\* Longest batch handed to create_jsonl_data when the split rule is examined.
MaxBatch == 11

\* Most paragraphs of a document handed to the extractor.
MaxParas == 2

\* Most calls of the extractor on one file object.
MaxCalls == 2

-----------------------------------------------------------------------------
(* Program constants *)

DocxMime == "application/vnd.openxmlformats-officedocument.wordprocessingml.document"

OtherMime == "application/pdf"

SectionTitle == "RAG Post"

DefaultRepo == "Falah/rag"

RepoNames == {"Falah/rag", "owner/rag"}

MinSplit == 10

MaxSplit == 50

DefaultSplit == 20

SplitValues == MinSplit..MaxSplit

Percent == 100

\* Bits of the significand of a Python float (IEEE 754 binary64).
MantissaBits == 53

NoToken == ""

GoodToken == "hf_good"

BadToken == "hf_bad"

Tokens == {NoToken, GoodToken, BadToken}

SuccessMsg == "Dataset uploaded to Hugging Face successfully with train and test splits!"

NoValidMsg == "No valid files to process."

-----------------------------------------------------------------------------
(* Strings are sequences of one-character strings. *)

Newline == "\n"

IsSpace(c) == c \in {" ", "\t", Newline}

RECURSIVE LStrip(_)
LStrip(s) ==
    IF s = <<>> THEN <<>>
    ELSE IF IsSpace(Head(s)) THEN LStrip(Tail(s)) ELSE s

RECURSIVE RStrip(_)
RStrip(s) ==
    IF s = <<>> THEN <<>>
    ELSE IF IsSpace(s[Len(s)]) THEN RStrip(SubSeq(s, 1, Len(s) - 1)) ELSE s

\* str.strip()
Strip(s) == RStrip(LStrip(s))

\* sep.join(parts)
RECURSIVE Join(_, _)
Join(parts, sep) ==
    IF parts = <<>> THEN <<>>
    ELSE IF Len(parts) = 1 THEN parts[1]
    ELSE parts[1] \o sep \o Join(Tail(parts), sep)

-----------------------------------------------------------------------------
(* Uploaded files.  An UploadedFile is a BytesIO: a byte string and a read *)
(* position.  The bytes are kept parsed: either they are a DOCX package    *)
(* with its paragraphs, or they are not (zip = FALSE).                     *)

EmptyBytes == [zip |-> FALSE, paras |-> <<>>, size |-> 0]

\* BytesIO.read(): the bytes from the position to the end ...
Read(f) == IF f.pos = 0 THEN f.data ELSE EmptyBytes

\* ... and the position moves to the end.
AfterRead(f) == [f EXCEPT !.pos = f.data.size]

\* The paragraphs extract_text_from_docx keeps: para.text.strip() is truthy.
KeepsParagraph(text) == Strip(text) # <<>>

\* extract_text_from_docx(docx_file): Document(...) raises on bytes that are
\* no DOCX package; otherwise the kept paragraphs are joined by "\n".
extract_text_from_docx(docx_file) ==
    LET bytes == Read(docx_file)
    IN  IF bytes.zip
        THEN [raised |-> FALSE,
              text |-> Join(SelectSeq(bytes.paras, KeepsParagraph), <<Newline>>)]
        ELSE [raised |-> TRUE, text |-> <<>>]

\* The framework builds the file objects anew for every execution of the
\* script, each positioned at its first byte.
FreshFiles(files) == [k \in 1..Len(files) |-> [files[k] EXCEPT !.pos = 0]]

-----------------------------------------------------------------------------
(* i % (100/test_split) == 0 in Python floats (line 240).                  *)
(*                                                                         *)
(* 100/P is the binary64 number q nearest to the quotient: with e the      *)
(* exponent of the quotient (2^e <= 100/P < 2^(e+1)) and k = 53 - 1 - e,   *)
(* q = M / 2^k where M is 100 * 2^k / P rounded to an integer.  The        *)
(* division is exact iff P divides 100 * 2^k, which DivRemainder decides   *)
(* by long division, one bit at a time.  float % float is fmod, which is   *)
(* exact, so  i % q == 0  iff i is an integer multiple of q:               *)
(*   - i = 0: always;                                                      *)
(*   - q exact: iff i * P is a multiple of 100;                            *)
(*   - q inexact: q = (100 * 2^k + d) / (P * 2^k) with 0 < |d| < P, and    *)
(*     i = m * q gives (i*P - 100*m) * 2^k = m * d, impossible for         *)
(*     0 < m * P < 2^k, that is for every index a session can hold.        *)

RECURSIVE QuotientExp(_, _)
QuotientExp(P, e) == IF 2 * P * (2 ^ e) <= Percent THEN QuotientExp(P, e + 1) ELSE e

RECURSIVE DivRemainder(_, _)
DivRemainder(P, bits) ==
    IF bits = 0 THEN Percent % P ELSE (2 * DivRemainder(P, bits - 1)) % P

\* Whether the float 100/P differs from the real quotient.
DivisionRounds(P) == DivRemainder(P, MantissaBits - 1 - QuotientExp(P, 0)) # 0

FloatModIsZero(idx, P) ==
    \/ idx = 0
    \/ /\ ~DivisionRounds(P)
       /\ (idx * P) % Percent = 0

\* The condition of line 240.
IsTestIndex(idx, P) == FloatModIsZero(idx, P)

-----------------------------------------------------------------------------
(* The inputs the model draws from. *)

SeqsUpTo(S, n) == UNION {[1..m -> S] : m \in 0..n}

\* The bytes of a DOCX package with these paragraphs, and bytes that are none.
Package(paras) == [zip |-> TRUE, paras |-> paras, size |-> Len(paras) + 1]

Garbage == [zip |-> FALSE, paras |-> <<>>, size |-> 1]

File(type, data) == [type |-> type, data |-> data, pos |-> 0]

GoodFile == File(DocxMime, Package(<< <<"a">>, <<" ">>, <<"b">> >>))

MalformedFile == File(DocxMime, Garbage)

OtherFile == File(OtherMime, Garbage)

FileKinds == {GoodFile, MalformedFile, OtherFile}

\* What a session can upload.
SessionUploads == SeqsUpTo(FileKinds, MaxFiles)

\* Long batches: well-formed DOCX files, and at most one file of another kind.
SplitBatches ==
    {[k \in 1..n |-> IF k = odd THEN kind ELSE GoodFile] :
        n \in 1..MaxBatch, odd \in 0..MaxBatch, kind \in FileKinds}

ParaTexts == {<<>>, <<" ">>, <<"a">>, <<" ", "b", " ">>}

ExtractInputs ==
    {File(type, data) :
        type \in {DocxMime, OtherMime},
        data \in {Garbage} \cup {Package(ps) : ps \in SeqsUpTo(ParaTexts, MaxParas)}}

-----------------------------------------------------------------------------
(* The script, lines 88-91: the sidebar logs in whenever a token is set.   *)

\* login(token=hf_token) raises on a token the hub does not accept.
LoginRaises(token) == token = BadToken

\* Line 89: login is called only for a non-empty token.
LoginCalled(token) == token # NoToken

AuthAfter(token, auth) ==
    IF LoginCalled(token) /\ ~LoginRaises(token) THEN TRUE ELSE auth

\* The script is not executing: it ran to its end or an exception ended it.
ScriptIdle == pc \in {"idle", "raised"}

\* Lines 250 and 253: the button exists when the last execution reached it.
ButtonRendered ==
    /\ uploaded_files # <<>>
    /\ ~(pc = "raised" /\ raised_by = "login")

\* One execution of the script from its first line, up to the call of
\* create_jsonl_data (clicked) or to its end (not clicked).
Rerun(token, files, clicked) ==
    /\ authenticated' = AuthAfter(token, authenticated)
    /\ uploaded_files' = FreshFiles(files)
    /\ i' = 0
    /\ train_data' = <<>>
    /\ test_data' = <<>>
    /\ train_src' = <<>>
    /\ test_src' = <<>>
    /\ warnings' = <<>>
    /\ messages' = <<>>
    /\ published' = <<>>
    /\ IF LoginCalled(token) /\ LoginRaises(token)
       THEN pc' = "raised" /\ raised_by' = "login"
       ELSE IF clicked /\ files # <<>>
            THEN pc' = "loop" /\ raised_by' = ""
            ELSE pc' = "idle" /\ raised_by' = ""

-----------------------------------------------------------------------------
(* create_jsonl_data, lines 234-246 *)

\* Line 237.
IsAccepted(f) == f.type = DocxMime

\* Line 239.
NewDocument(content) == [section_title |-> SectionTitle, content |-> content]

\* Lines 240-243: the record goes to test_data or to train_data.
TestAfter(te, x, idx, P) == IF IsTestIndex(idx, P) THEN Append(te, x) ELSE te

\* A variant that lost the else of line 242.
TrainAfterNoElse(tr, x, idx, P) == Append(tr, x)

TrainAfter(tr, x, idx, P) == IF IsTestIndex(idx, P) THEN tr ELSE Append(tr, x)

\* A variant that skips a rejected file silently.
WarningsAfterSilent(ws, f) == ws

\* Line 245.
WarningsAfter(ws, f) == Append(ws, f.type)

\* A variant without the test of line 255.
ShouldPublishAlways(tr, te) == TRUE

\* Line 255.
ShouldPublish(tr, te) == tr # <<>> \/ te # <<>>

\* A variant that reports success whatever push_to_hub did.
MessagesAfterPushAlways(ms, ok) == Append(ms, SuccessMsg)

\* Lines 260-261: the success message follows a push_to_hub that returned.
MessagesAfterPush(ms, ok) == IF ok THEN Append(ms, SuccessMsg) ELSE ms

-----------------------------------------------------------------------------
(* The state after the script's first execution, nothing entered yet. *)

Init ==
    /\ hf_token = NoToken
    /\ authenticated = FALSE
    /\ repo_name = DefaultRepo
    /\ test_split = DefaultSplit
    /\ uploaded_files = <<>>
    /\ pc = "idle"
    /\ raised_by = ""
    /\ i = 0
    /\ train_data = <<>>
    /\ test_data = <<>>
    /\ train_src = <<>>
    /\ test_src = <<>>
    /\ warnings = <<>>
    /\ messages = <<>>
    /\ published = <<>>
    /\ extracted = <<>>

(* User interactions: each changes one widget and re-executes the script. *)

EnterToken(t) ==
    /\ ScriptIdle
    /\ t # hf_token
    /\ hf_token' = t
    /\ Rerun(t, uploaded_files, FALSE)
    /\ UNCHANGED <<repo_name, test_split, extracted>>

EnterRepoName(r) ==
    /\ ScriptIdle
    /\ r # repo_name
    /\ repo_name' = r
    /\ Rerun(hf_token, uploaded_files, FALSE)
    /\ UNCHANGED <<hf_token, test_split, extracted>>

MoveSlider(p) ==
    /\ ScriptIdle
    /\ p # test_split
    /\ test_split' = p
    /\ Rerun(hf_token, uploaded_files, FALSE)
    /\ UNCHANGED <<hf_token, repo_name, extracted>>

ChooseFiles(fs) ==
    /\ ScriptIdle
    /\ fs # FreshFiles(uploaded_files)
    /\ Rerun(hf_token, fs, FALSE)
    /\ UNCHANGED <<hf_token, repo_name, test_split, extracted>>

\* Line 253: st.button returns True in the execution the click starts.
ClickButton ==
    /\ ScriptIdle
    /\ ButtonRendered
    /\ Rerun(hf_token, uploaded_files, TRUE)
    /\ UNCHANGED <<hf_token, repo_name, test_split, extracted>>

(* The execution the button started. *)

\* One iteration of the loop of line 236, on the file of index i.
LoopStep ==
    /\ pc = "loop"
    /\ i < Len(uploaded_files)
    /\ LET f == uploaded_files[i + 1]
           r == extract_text_from_docx(f)
           doc == NewDocument(r.text)
       IN  IF IsAccepted(f)
           THEN /\ uploaded_files' = [uploaded_files EXCEPT ![i + 1] = AfterRead(f)]
                /\ IF r.raised
                   THEN /\ pc' = "raised"
                        /\ raised_by' = "extract"
                        /\ UNCHANGED <<i, train_data, test_data, train_src, test_src>>
                   ELSE /\ test_data' = TestAfter(test_data, doc, i, test_split)
                        /\ train_data' = TrainAfter(train_data, doc, i, test_split)
                        /\ test_src' = TestAfter(test_src, i, i, test_split)
                        /\ train_src' = TrainAfter(train_src, i, i, test_split)
                        /\ i' = i + 1
                        /\ UNCHANGED <<pc, raised_by>>
                /\ UNCHANGED warnings
           ELSE /\ warnings' = WarningsAfter(warnings, f)
                /\ i' = i + 1
                /\ UNCHANGED <<uploaded_files, pc, raised_by, train_data,
                               test_data, train_src, test_src>>
    /\ UNCHANGED <<hf_token, authenticated, repo_name, test_split, messages,
                   published, extracted>>

\* Line 246: the loop is over and create_jsonl_data returns.
ReturnStep ==
    /\ pc = "loop"
    /\ i = Len(uploaded_files)
    /\ pc' = "returned"
    /\ UNCHANGED <<hf_token, authenticated, repo_name, test_split,
                   uploaded_files, raised_by, i, train_data, test_data,
                   train_src, test_src, warnings, messages, published,
                   extracted>>

\* Lines 255-263: publish, or report that there is nothing to publish.
\* push_to_hub returns or raises as the hub decides.
PublishStep ==
    /\ pc = "returned"
    /\ IF ShouldPublish(train_data, test_data)
       THEN \E ok \in BOOLEAN :
               /\ published' = Append(published,
                                  [repo |-> repo_name, train |-> train_data,
                                   test |-> test_data, ok |-> ok])
               /\ messages' = MessagesAfterPush(messages, ok)
               /\ pc' = IF ok THEN "idle" ELSE "raised"
               /\ raised_by' = IF ok THEN "" ELSE "push"
       ELSE /\ messages' = Append(messages, NoValidMsg)
            /\ pc' = "idle"
            /\ UNCHANGED <<published, raised_by>>
    /\ UNCHANGED <<hf_token, authenticated, repo_name, test_split,
                   uploaded_files, i, train_data, test_data, train_src,
                   test_src, warnings, extracted>>

RunStep == LoopStep \/ ReturnStep \/ PublishStep

Next ==
    \/ \E t \in Tokens : EnterToken(t)
    \/ \E r \in RepoNames : EnterRepoName(r)
    \/ \E p \in SplitValues : MoveSlider(p)
    \/ \E fs \in SessionUploads : ChooseFiles(fs)
    \/ ClickButton
    \/ RunStep

Spec == Init /\ [][Next]_vars

-----------------------------------------------------------------------------
(* create_jsonl_data and what follows it, on long batches and every split. *)

InitSplit ==
    /\ hf_token = NoToken
    /\ authenticated = FALSE
    /\ repo_name = DefaultRepo
    /\ test_split \in SplitValues
    /\ uploaded_files \in SplitBatches
    /\ pc = "idle"
    /\ raised_by = ""
    /\ i = 0
    /\ train_data = <<>>
    /\ test_data = <<>>
    /\ train_src = <<>>
    /\ test_src = <<>>
    /\ warnings = <<>>
    /\ messages = <<>>
    /\ published = <<>>
    /\ extracted = <<>>

NextSplit == ClickButton \/ RunStep

SpecSplit == InitSplit /\ [][NextSplit]_vars

-----------------------------------------------------------------------------
(* extract_text_from_docx called again and again on one file object. *)

InitExtract ==
    /\ hf_token = NoToken
    /\ authenticated = FALSE
    /\ repo_name = DefaultRepo
    /\ test_split = DefaultSplit
    /\ uploaded_files \in {<<f>> : f \in ExtractInputs}
    /\ pc = "idle"
    /\ raised_by = ""
    /\ i = 0
    /\ train_data = <<>>
    /\ test_data = <<>>
    /\ train_src = <<>>
    /\ test_src = <<>>
    /\ warnings = <<>>
    /\ messages = <<>>
    /\ published = <<>>
    /\ extracted = <<>>

ExtractCall ==
    /\ Len(extracted) < MaxCalls
    /\ extracted' = Append(extracted, extract_text_from_docx(uploaded_files[1]))
    /\ uploaded_files' = <<AfterRead(uploaded_files[1])>>
    /\ UNCHANGED <<hf_token, authenticated, repo_name, test_split, pc,
                   raised_by, i, train_data, test_data, train_src, test_src,
                   warnings, messages, published>>

NextExtract == ExtractCall

SpecExtract == InitExtract /\ [][NextExtract]_vars

-----------------------------------------------------------------------------
(* Properties *)

Range(s) == {s[k] : k \in 1..Len(s)}

NoDuplicates(s) == Cardinality(Range(s)) = Len(s)

\* Zero-based indices of the uploaded files, and of those with the DOCX type.
Indices == 0..(Len(uploaded_files) - 1)

TypeOf(k) == uploaded_files[k + 1].type

AcceptedIdx == {k \in Indices : TypeOf(k) = DocxMime}

RejectedIdx == {k \in Indices : TypeOf(k) # DocxMime}

\* Accepted files whose bytes are no DOCX package.
MalformedIdx == {k \in AcceptedIdx : ~uploaded_files[k + 1].data.zip}

PlacedIdx == Range(train_src) \cup Range(test_src)

\* create_jsonl_data has returned in this execution of the script.
Returned == pc = "returned" \/ messages # <<>> \/ published # <<>>

\* The record of the well-formed file of the session uploads.
GoodRecord == [section_title |-> "RAG Post", content |-> <<"a", "\n", "b">>]

\* C1: once create_jsonl_data has returned, every file of the accepted type
\* has exactly one Document record, in exactly one of train_data and
\* test_data: the subsets are disjoint, hold no file twice, and together hold
\* exactly the accepted files.
C1_Partition ==
    Returned =>
        /\ Range(train_src) \cap Range(test_src) = {}
        /\ NoDuplicates(train_src)
        /\ NoDuplicates(test_src)
        /\ PlacedIdx = AcceptedIdx
        /\ Len(train_data) = Len(train_src)
        /\ Len(test_data) = Len(test_src)
        /\ \A k \in 1..Len(train_data) : train_data[k] = GoodRecord
        /\ \A k \in 1..Len(test_data) : test_data[k] = GoodRecord

C1_Witness ==
    /\ pc = "returned"
    /\ train_src # <<>>
    /\ test_src # <<>>
    /\ warnings # <<>>

\* C2: a file of another type gets no record, gets exactly one warning naming
\* its type, and does not stop the loop: the warnings of an execution are as
\* many as the rejected files processed so far, and as many as all rejected
\* files once create_jsonl_data has returned.
C2_RejectedWarned ==
    /\ PlacedIdx \cap RejectedIdx = {}
    /\ Len(warnings) = Cardinality({k \in RejectedIdx : k < i})
    /\ \A k \in 1..Len(warnings) : warnings[k] # DocxMime
    /\ Returned => Len(warnings) = Cardinality(RejectedIdx)
    /\ (pc = "raised" /\ raised_by = "extract") => i \in AcceptedIdx

C2_Witness ==
    /\ pc = "returned"
    /\ Len(warnings) = 2
    /\ PlacedIdx # {}
    /\ TypeOf(0) # DocxMime

\* C3: an accepted file at zero-based index k goes to the test subset exactly
\* when k * P is a multiple of 100 (k modulo the real number 100/P is 0), and
\* to the train subset otherwise.
C3_RealModuloSplit ==
    \A k \in PlacedIdx :
        /\ k \in Range(test_src) <=> (k * test_split) % 100 = 0
        /\ k \in Range(train_src) <=> (k * test_split) % 100 # 0

\* C4: nothing is published when both subsets are empty: with no file
\* uploaded nothing is processed or published, and an execution that
\* processed files of which none survived reports "no valid files" once and
\* does not publish.  Publishing happens only with a non-empty subset.
C4_NoEmptyPublish ==
    /\ published # <<>> => (train_data # <<>> \/ test_data # <<>>)
    /\ \A k \in 1..Len(published) :
           published[k].train # <<>> \/ published[k].test # <<>>
    /\ uploaded_files = <<>> =>
           /\ pc \notin {"loop", "returned"}
           /\ i = 0
           /\ warnings = <<>>
           /\ messages = <<>>
           /\ published = <<>>
    /\ (pc = "idle" /\ i > 0 /\ train_data = <<>> /\ test_data = <<>>) =>
           /\ messages = <<NoValidMsg>>
           /\ published = <<>>

C4_Witness ==
    /\ pc = "idle"
    /\ i = Len(uploaded_files)
    /\ i > 1
    /\ train_data = <<>>
    /\ test_data = <<>>
    /\ messages = <<NoValidMsg>>

\* C5: an accepted file whose text extraction fails is skipped with a
\* warning; the execution is not ended by it, the loop goes on, and the
\* execution reaches the publish or no-valid-files step.
C5_MalformedSkipped ==
    /\ ~(pc = "raised" /\ raised_by = "extract")
    /\ Len(warnings) = Cardinality({k \in RejectedIdx \cup MalformedIdx : k < i})
    /\ (ScriptIdle /\ i > 0) => i = Len(uploaded_files)

\* C6: push_to_hub is never called in a session in which login has not been
\* performed.
C6_AuthBeforePublish == published # <<>> => authenticated

\* C7: one execution calls push_to_hub at most once, after the loop has
\* processed every file and with the whole subsets; a call that fails ends
\* the execution with that error and no success message, and the success
\* message is shown only after a call that returned.
C7_SinglePublish ==
    /\ Len(published) <= 1
    /\ pc = "loop" => published = <<>>
    /\ \A k \in 1..Len(published) :
           /\ i = Len(uploaded_files)
           /\ published[k].train = train_data
           /\ published[k].test = test_data
           /\ published[k].ok => pc = "idle" /\ messages = <<SuccessMsg>>
           /\ ~published[k].ok =>
                  pc = "raised" /\ raised_by = "push" /\ messages = <<>>
    /\ \A k \in 1..Len(messages) :
           messages[k] = SuccessMsg =>
               /\ Len(published) = 1
               /\ published[1].ok

C7_Witness ==
    /\ pc = "raised"
    /\ raised_by = "push"
    /\ Len(published) = 1
    /\ train_data # <<>>
    /\ test_data # <<>>

\* C8: a second call of extract_text_from_docx on the same file object does
\* not fail and returns the text the first call returned.
C8_ExtractIdempotent ==
    (Len(extracted) >= 2 /\ ~extracted[1].raised) =>
        /\ ~extracted[2].raised
        /\ extracted[2].text = extracted[1].text

\* C9: a rejected file does not advance the split counter: the subset of an
\* accepted file depends only on P and on the number of accepted files that
\* precede it, as in the batch without the rejected files.
C9_RejectedDoNotAdvance ==
    \A k \in PlacedIdx :
        LET before == Cardinality({j \in AcceptedIdx : j < k})
        IN  k \in Range(test_src) <=> IsTestIndex(before, test_split)

\* C10: one accepted file and one unsupported file, in either order and for
\* every P: the accepted file is in the test subset, train is empty, one
\* warning is emitted, and publish receives train = [] and test = [the
\* document].
C10_OneValidOneUnsupported ==
    (/\ Returned
     /\ Len(uploaded_files) = 2
     /\ Cardinality(AcceptedIdx) = 1
     /\ MalformedIdx = {}) =>
        /\ test_data = <<GoodRecord>>
        /\ train_data = <<>>
        /\ Len(warnings) = 1
        /\ \A k \in 1..Len(published) :
               published[k].train = <<>> /\ published[k].test = <<GoodRecord>>

=============================================================================
